---- MODULE Spec2Model ----
(***************************************************************************)
(* The categorized tracing pipeline of node: tracing::Agent                *)
(* (src/tracing/agent.cc), the JS bindings of src/node_tracing.cc, and the *)
(* TraceBuffer / TraceWriter / TracingController they drive.  The buffer,  *)
(* the writer and the controller are declared in headers the sources only  *)
(* include; they are modelled from their contract in spec.md (sections     *)
(* 4.1 - 4.3) and marked so in MODEL_MAP.json.                             *)
(*                                                                         *)
(* C strings are sequences of one-character strings, so that joining with  *)
(* ',' and splitting at ',' are computed, not assumed.                     *)
(***************************************************************************)
EXTENDS Integers, Sequences, FiniteSets, TLC

\* ------------------------------------------------------------------ bounds
ChunkCapacity == 2
MaxOutstanding == 2
MaxAppend == 7
MaxEmit == 1

\* ----------------------------------------------------------------- strings
Comma == ","
nullptr == <<"nullptr">>
NoId == <<"none">>
StrX == <<"x">>
StrY == <<"y">>
StrXY == <<"x", ",", "y">>
NameE1 == <<"E1">>
StrV8 == <<"v", "8">>
StrNode == <<"n", "o", "d", "e">>

RECURSIVE JoinFrom(_, _)
JoinFrom(strs, i) ==
  IF i > Len(strs) THEN <<>>
  ELSE (IF i > 1 THEN <<Comma>> ELSE <<>>) \o strs[i] \o JoinFrom(strs, i + 1)

RECURSIVE SplitFrom(_, _, _)
SplitFrom(s, i, cur) ==
  IF i > Len(s) THEN <<cur>>
  ELSE IF s[i] = Comma THEN <<cur>> \o SplitFrom(s, i + 1, <<>>)
  ELSE SplitFrom(s, i + 1, Append(cur, s[i]))

Split(s) == SplitFrom(s, 1, <<>>)

SeqToSet(q) == {q[i] : i \in 1..Len(q)}

\* --------------------------------------------------------------- JS values
Undefined == [t |-> "undefined", s |-> <<>>, a |-> <<>>, n |-> 0]
StrV(str) == [t |-> "string", s |-> str, a |-> <<>>, n |-> 0]
ArrV(elems) == [t |-> "array", s |-> <<>>, a |-> elems, n |-> 0]
NumV(k) == [t |-> "number", s |-> <<>>, a |-> <<>>, n |-> k]
ObjV(k) == [t |-> "object", s |-> <<>>, a |-> <<>>, n |-> k]
BoolV == [t |-> "boolean", s |-> <<>>, a |-> <<>>, n |-> 0]

IsString(v) == v.t = "string"
IsArray(v) == v.t = "array"
IsUndefined(v) == v.t = "undefined"
IsNumber(v) == v.t = "number"
\* v8::Value::IsObject is true of arrays too.
IsObject(v) == v.t \in {"object", "array"}

VARIABLES
  started_,             \* Agent::started_
  categories_,          \* Agent::categories_ (a vector of strings)
  tracing,              \* TracingController: recording mode on
  config,               \* TracingController: included categories of the TraceConfig
  categoryGroups,       \* node_tracing.cc: the interned category group strings
  categoryGroupAtomic,  \* node_tracing.cc: the static word of GetCategoryGroupEnabled
  siteAtomic,           \* the static word each trace macro keeps at its call site
  open,                 \* TraceBuffer: the chunk being appended to
  queue,                \* sealed chunks handed to the writer, oldest first
  sink,                 \* chunks the writer passed to the sink, oldest first
  pc,                   \* where the control thread is: "idle", "flush", "drain"
  nAppend,              \* number of Append calls so far (stamps the events)
  accepted,             \* stamps of the events Append accepted
  last,                 \* what the last call did (observation only)
  rt,                   \* progress of the enable / emit / stop round trip
  thread_,              \* Agent::thread_: the worker ("running", "joining", "joined")
  pending,              \* an Agent::SetCategories call another thread is inside of
  snapshot,             \* what the last concurrent GetCategories() reader saw
  starter               \* an Agent::Start call another thread is inside of ("idle", "set")

vars == <<started_, categories_, tracing, config, categoryGroups, categoryGroupAtomic,
          siteAtomic, open, queue, sink, pc, nAppend, accepted, last, rt,
          thread_, pending, snapshot, starter>>

agentVars == <<started_, categories_, tracing, config>>
internVars == <<categoryGroups, categoryGroupAtomic, siteAtomic>>
bufferVars == <<open, queue, sink>>
stampVars == <<nAppend, accepted>>
sideVars == <<thread_, pending, snapshot, starter>>

\* No Agent::SetCategories call is under way on another thread.
NoCall == [active |-> FALSE, old |-> <<>>, list |-> <<>>]
\* No reader has looked yet.
NoSnapshot == [taken |-> FALSE, during |-> FALSE, seen |-> <<>>, old |-> <<>>, list |-> <<>>]

\* The control thread is between calls on a live Agent.
CallerIdle == pc = "idle" /\ thread_ = "running" /\ ~pending.active

\* What a step reports: the call it belongs to, whether it threw, the outcome
\* of its enabled check (made / result / what the registry says of the group),
\* Append's result if it appended, and the controller call it made.
Obs(op, err, checked, enabled, truly, res, ctl) ==
  [op |-> op, err |-> err, checked |-> checked, enabled |-> enabled,
   truly |-> truly, res |-> res, ctl |-> ctl]

Plain(op, ctl) == Obs(op, FALSE, FALSE, FALSE, FALSE, "none", ctl)
Threw(op) == Obs(op, TRUE, FALSE, FALSE, FALSE, "none", "none")

\* -------------------------------------------------------------- TraceBuffer
NewChunk(id) == [id |-> id, events |-> <<>>]

\* Append's result for the buffer as it stands.
AppendResult ==
  IF Len(open.events) < ChunkCapacity THEN "Accepted"
  ELSE IF Len(queue) < MaxOutstanding THEN "Accepted"
  ELSE "DroppedBufferFull"

\* TraceBuffer.Append, one atomic step: into the open chunk; a full open chunk
\* is sealed and queued and a new one opened; with the queue at its maximum
\* the event is dropped.
OpenAfterAppend(ev) ==
  IF Len(open.events) < ChunkCapacity THEN [open EXCEPT !.events = Append(@, ev)]
  ELSE IF Len(queue) < MaxOutstanding THEN [id |-> open.id + 1, events |-> <<ev>>]
  ELSE open

\* (variant) the full open chunk is queued without looking at the queue's length
QueueAfterAppend_NoLimit ==
  IF Len(open.events) < ChunkCapacity THEN queue ELSE Append(queue, open)

QueueAfterAppend ==
  IF Len(open.events) < ChunkCapacity THEN queue
  ELSE IF Len(queue) < MaxOutstanding THEN Append(queue, open)
  ELSE queue

Stamp(ev) == [ev EXCEPT !.seq = nAppend + 1]

\* (variant) Append waits for the writer when the buffer is full
DoAppend_WaitsForRoom(ev) ==
  /\ AppendResult = "Accepted"
  /\ open' = OpenAfterAppend(Stamp(ev))
  /\ queue' = QueueAfterAppend
  /\ nAppend' = nAppend + 1
  /\ accepted' = accepted \cup {nAppend + 1}
  /\ UNCHANGED sink

DoAppend(ev) ==
  /\ open' = OpenAfterAppend(Stamp(ev))
  /\ queue' = QueueAfterAppend
  /\ nAppend' = nAppend + 1
  /\ accepted' = IF AppendResult = "Accepted" THEN accepted \cup {nAppend + 1} ELSE accepted
  /\ UNCHANGED sink

\* TraceBuffer.FlushNow: seal the partially filled chunk and queue it.  The
\* writer queue holds at most MaxOutstanding chunks, so the flush takes effect
\* when the queue has room.
CanFlush == open.events = <<>> \/ Len(queue) < MaxOutstanding

\* (variant) the chunk is queued but stays the open chunk
FlushNow_KeepsOpen ==
  IF open.events = <<>> THEN UNCHANGED <<open, queue>>
  ELSE /\ queue' = Append(queue, open)
       /\ open' = open

FlushNow ==
  IF open.events = <<>> THEN UNCHANGED <<open, queue>>
  ELSE /\ queue' = Append(queue, open)
       /\ open' = NewChunk(open.id + 1)

\* TraceWriter.ConsumeChunk on the worker: the oldest sealed chunk is handed to
\* the sink's WriteChunk; sink holds the chunks handed over.  A failing write is
\* logged and the chunk is gone all the same.
\* (variant) the writer takes the newest sealed chunk
ConsumeChunk_Newest ==
  /\ queue # <<>>
  /\ sink' = Append(sink, queue[Len(queue)])
  /\ queue' = SubSeq(queue, 1, Len(queue) - 1)
  /\ UNCHANGED open

ConsumeChunk ==
  /\ queue # <<>>
  /\ sink' = Append(sink, Head(queue))
  /\ queue' = Tail(queue)
  /\ UNCHANGED open

\* -------------------------------------------------------- TracingController
\* The enabled flag of a category group: recording, and at least one of the
\* group's comma-split names is an included category.
IsGroupEnabled(group) ==
  /\ tracing
  /\ \E i \in 1..Len(Split(group)) : Split(group)[i] \in config

\* -------------------------------------------------------------------- Agent
IsStarted == started_

\* (variant) Start forgets to set started_
AgentStart_NoFlag(cats) ==
  /\ config' = SeqToSet(cats)
  /\ tracing' = TRUE
  /\ started_' = started_

\* (variant) Start keeps the controller's previous configuration
AgentStart_StaleConfig(cats) ==
  /\ config' = config
  /\ tracing' = TRUE
  /\ started_' = TRUE

\* Agent::Start: a TraceConfig of the current categories, StartTracing, started_.
AgentStart(cats) ==
  /\ config' = SeqToSet(cats)
  /\ tracing' = TRUE
  /\ started_' = TRUE

\* (variant) SetCategories does not push the list to a started controller
AgentSetCategories_NoPush(list) ==
  /\ categories_' = list
  /\ UNCHANGED <<config, tracing, started_>>

\* Agent::SetCategories(const std::vector<std::string>&).
AgentSetCategories(list) ==
  /\ categories_' = list
  /\ IF IsStarted THEN AgentStart(list)
     ELSE UNCHANGED <<config, tracing, started_>>

\* std::getline(category_stream, category, ',') in a loop that runs while the
\* stream is good, the stream standing before character i: the characters up
\* to the next ',' are extracted and the ',' is consumed; when the end of the
\* string is reached instead, what was extracted (nothing, possibly) is the
\* last category and the stream is no longer good.
NextComma(s, i) ==
  IF \E j \in i..Len(s) : s[j] = Comma
  THEN CHOOSE j \in i..Len(s) : s[j] = Comma /\ \A k \in i..(j - 1) : s[k] # Comma
  ELSE 0

RECURSIVE ReadCategories(_, _)
ReadCategories(s, i) ==
  IF NextComma(s, i) = 0 THEN <<SubSeq(s, i, Len(s))>>
  ELSE <<SubSeq(s, i, NextComma(s, i) - 1)>> \o ReadCategories(s, NextComma(s, i) + 1)

\* (variant) empty segments are not pushed
CategoriesOfCStr_DropsEmpty(category_list) ==
  IF category_list = nullptr THEN <<StrV8, StrNode>>
  ELSE SelectSeq(ReadCategories(category_list, 1), LAMBDA c : c # <<>>)

\* What Agent::SetCategories(const char*) pushes into the cleared categories_.
CategoriesOfCStr(category_list) ==
  IF category_list = nullptr THEN <<StrV8, StrNode>>
  ELSE ReadCategories(category_list, 1)

\* (variant) Stop clears started_ without calling StopTracing
AgentStopBegin_NoStopTracing ==
  IF IsStarted
  THEN /\ started_' = FALSE
       /\ UNCHANGED <<tracing, categories_, config, pc>>
  ELSE UNCHANGED <<agentVars, pc>>

\* (variant) Stop calls StopTracing whether or not the agent is started
AgentStopBegin_Unguarded ==
  /\ tracing' = FALSE
  /\ pc' = "flush"
  /\ UNCHANGED <<started_, categories_, config>>

\* Agent::Stop, up to the point where StopTracing waits for the final flush.
AgentStopBegin ==
  IF IsStarted
  THEN /\ tracing' = FALSE
       /\ pc' = "flush"
       /\ UNCHANGED <<started_, categories_, config>>
  ELSE UNCHANGED <<agentVars, pc>>

\* ----------------------------------------------------------- node_tracing.cc
AllStrings(elems) == \A i \in 1..Len(elems) : IsString(elems[i])
StringsOf(elems) == [i \in 1..Len(elems) |-> elems[i].s]

\* (variant) non-string elements of an array are skipped instead of rejected
GetCategoryGroup_SkipsNonStrings(categoryValue) ==
  IF IsString(categoryValue) THEN categoryValue.s
  ELSE IF IsArray(categoryValue)
       THEN JoinFrom(StringsOf(SelectSeq(categoryValue.a, IsString)), 1)
       ELSE nullptr

\* GetCategoryGroup: the comma-joined group of a string or string array value,
\* nullptr (after a TypeError) for anything else.
GetCategoryGroup(categoryValue) ==
  IF IsString(categoryValue) THEN categoryValue.s
  ELSE IF IsArray(categoryValue)
       THEN (IF AllStrings(categoryValue.a)
             THEN JoinFrom(StringsOf(categoryValue.a), 1)
             ELSE nullptr)
       ELSE nullptr

\* categoryGroups.insert(str): the set's nodes in the order they were
\* allocated; a node's position stands for its address, which c_str() hands
\* out.  An element equal to str blocks the insertion and is returned instead.
Slot(str) ==
  IF \E i \in 1..Len(categoryGroups) : categoryGroups[i] = str
  THEN CHOOSE i \in 1..Len(categoryGroups) : categoryGroups[i] = str
  ELSE 0

\* (variant) every call allocates a new node, equal strings included
Insert_NoLookup(str) ==
  [pool |-> Append(categoryGroups, str), ref |-> Len(categoryGroups) + 1]

Insert(str) ==
  IF Slot(str) # 0 THEN [pool |-> categoryGroups, ref |-> Slot(str)]
  ELSE [pool |-> Append(categoryGroups, str), ref |-> Len(categoryGroups) + 1]

\* The strings GetCategoryGroup leaves in the static categoryGroups set.
Interned(categoryGroup) ==
  IF categoryGroup = nullptr THEN categoryGroups
  ELSE Insert(categoryGroup).pool

\* (variant) an array with a non-string element yields its string elements
GetCategoryList_SkipsNonStrings(categoryValue) ==
  IF IsString(categoryValue) THEN [ok |-> TRUE, list |-> <<categoryValue.s>>]
  ELSE IF IsArray(categoryValue)
       THEN [ok |-> TRUE, list |-> StringsOf(SelectSeq(categoryValue.a, IsString))]
       ELSE [ok |-> FALSE, list |-> <<>>]

\* GetCategoryList: the list of a string or string array value; the second
\* field is false after a TypeError.
GetCategoryList(categoryValue) ==
  IF IsString(categoryValue) THEN [ok |-> TRUE, list |-> <<categoryValue.s>>]
  ELSE IF IsArray(categoryValue) /\ AllStrings(categoryValue.a)
       THEN [ok |-> TRUE, list |-> StringsOf(categoryValue.a)]
       ELSE [ok |-> FALSE, list |-> <<>>]

\* INTERNAL_TRACE_EVENT_GET_CATEGORY_INFO_CUSTOM_VARIABLES on the one static
\* word of GetCategoryGroupEnabled: the flag pointer is loaded from the word,
\* and only a zero word is filled from the controller, for the group at hand.
\* A flag pointer is named by the group whose flag it is.
FlagPointer(categoryGroup) ==
  IF categoryGroupAtomic = nullptr THEN categoryGroup ELSE categoryGroupAtomic

AtomicAfterCheck(categoryGroup) ==
  IF categoryGroup = nullptr THEN categoryGroupAtomic ELSE FlagPointer(categoryGroup)

\* (variant) the flag pointer is returned without testing the flag
GetCategoryGroupEnabled_NoFlagTest(categoryGroup) ==
  IF categoryGroup = nullptr THEN nullptr
  ELSE FlagPointer(categoryGroup)

\* GetCategoryGroupEnabled: the flag pointer when its flag is set, else nullptr.
GetCategoryGroupEnabled(categoryGroup) ==
  IF categoryGroup = nullptr THEN nullptr
  ELSE IF ~IsGroupEnabled(FlagPointer(categoryGroup)) THEN nullptr
  ELSE FlagPointer(categoryGroup)

ValidateEventName(arg) == IsString(arg)
ValidateEventId(arg) == IsString(arg) \/ IsUndefined(arg)

\* Utf8Value::out() of a value: the characters of a string, nullptr otherwise.
Utf8Out(arg) == IF IsString(arg) THEN arg.s ELSE nullptr

\* GetTimestamp: 0 for a Date, -1 (after a TypeError) for another defined
\* value; for undefined the function ends without a return statement, and the
\* caller reads whatever the build left there (garbage).
GetTimestamp(arg, garbage) ==
  IF arg.t = "date" THEN 0
  ELSE IF ~IsUndefined(arg) THEN -1
  ELSE garbage

Event(phase, name, cat, id, nargs, val) ==
  [phase |-> phase, name |-> name, cat |-> cat, id |-> id, nargs |-> nargs,
   val |-> val, seq |-> 0]

NoEvent == Event("none", <<>>, <<>>, NoId, 0, 0)

\* The trace macro call sites of node_tracing.cc: TRACE_EVENT_COPY_INSTANT0,
\* TRACE_EVENT_COPY_ASYNC_BEGIN0 (twice), TRACE_EVENT_COPY_ASYNC_END0 (twice),
\* TRACE_COPY_COUNTER1.
Sites == {"Instant0", "Begin0", "Begin0Args", "End0", "End0Args", "Counter1"}

\* How a handler ends: in a trace macro at a call site, in a direct
\* TRACE_EVENT_API_ADD_TRACE_EVENT, in a plain return or in a TypeError.
Macro(site, ev) == [via |-> site, err |-> FALSE, ev |-> ev]
Direct(ev) == [via |-> "direct", err |-> FALSE, ev |-> ev]
Returns == [via |-> "none", err |-> FALSE, ev |-> NoEvent]
Throws == [via |-> "none", err |-> TRUE, ev |-> NoEvent]

\* TraceWithArgs on the value the caller hands it.  Casting a value that is
\* no object to Local<Object> is unchecked; what GetPropertyNames then does is
\* up to the build (castOk: it behaves as an object with a property).
TraceWithArgs(obj, castOk, ev) ==
  IF obj.t = "object"
  THEN (IF obj.n = 0 THEN Throws ELSE Direct([ev EXCEPT !.nargs = 1]))
  ELSE (IF castOk THEN Direct([ev EXCEPT !.nargs = 1]) ELSE Throws)

\* The body of EmitInstantEvent after the category group was resolved.  args[4]
\* lies past the four arguments CHECK_EQ admits, so it is undefined.
InstantOutcome(nameV, idV, argsV, categoryGroup, enabledPtr, garbage, castOk) ==
  IF enabledPtr = nullptr THEN Returns
  ELSE IF ~ValidateEventName(nameV) THEN Throws
  ELSE IF GetTimestamp(Undefined, garbage) < 0 THEN Returns
  ELSE IF IsUndefined(argsV)
       THEN Macro("Instant0", Event("Instant", Utf8Out(nameV), categoryGroup, NoId, 0, 0))
  ELSE IF IsObject(argsV)
       THEN TraceWithArgs(idV, castOk,
                          Event("Instant", Utf8Out(nameV), enabledPtr, NoId, 0, 0))
  ELSE Throws

\* (variant) the id is taken from the id argument alone
EffectiveId_NoDefault(nameV, idV) == Utf8Out(idV)

\* id = idValue.out(); if (id == nullptr) id = name;
EffectiveId(nameV, idV) ==
  IF Utf8Out(idV) = nullptr THEN Utf8Out(nameV) ELSE Utf8Out(idV)

\* EmitBeginEvent / EmitEndEvent after the category group was resolved.
SpanOutcome(phase, site, siteArgs, nameV, idV, argsV, categoryGroup, enabledPtr, garbage) ==
  IF enabledPtr = nullptr THEN Returns
  ELSE IF ~ValidateEventName(nameV) THEN Throws
  ELSE IF ~ValidateEventId(idV) THEN Throws
  ELSE IF GetTimestamp(Undefined, garbage) < 0 THEN Returns
  ELSE IF IsUndefined(argsV)
       THEN Macro(site, Event(phase, Utf8Out(nameV), categoryGroup,
                              EffectiveId(nameV, idV), 0, 0))
  ELSE IF IsObject(argsV)
       THEN Macro(siteArgs, Event(phase, Utf8Out(nameV), categoryGroup,
                                  EffectiveId(nameV, idV), 0, 0))
  ELSE Throws

\* EmitCountEvent after the category group was resolved.
CountOutcome(nameV, argsV, categoryGroup, enabledPtr, garbage) ==
  IF enabledPtr = nullptr THEN Returns
  ELSE IF ~ValidateEventName(nameV) THEN Throws
  ELSE IF GetTimestamp(Undefined, garbage) < 0 THEN Returns
  ELSE IF IsNumber(argsV)
       THEN Macro("Counter1", Event("Counter", Utf8Out(nameV), categoryGroup, NoId, 0, argsV.n))
  ELSE IF IsObject(argsV) THEN Returns
  ELSE Throws

\* INTERNAL_TRACE_EVENT_ADD at a call site: the macro loads the flag pointer
\* from the site's own static word, fills a zero word from the controller for
\* the group at hand, and adds the event, under the category of that pointer,
\* only if its flag is set.
SitePointer(site, categoryGroup) ==
  IF siteAtomic[site] = nullptr THEN categoryGroup ELSE siteAtomic[site]

\* Whether the way a handler ends adds an event to the buffer, and which.
Adds(out, categoryGroup) ==
  \/ out.via = "direct"
  \/ out.via \in Sites /\ IsGroupEnabled(SitePointer(out.via, categoryGroup))

Added(out, categoryGroup) ==
  IF out.via \in Sites
  THEN [out.ev EXCEPT !.cat = SitePointer(out.via, categoryGroup)]
  ELSE out.ev

\* One emission call: the group is resolved and interned, the enabled check
\* runs (filling the static word), and the handler ends as `out` says.
Emission(categoryValue, out) ==
  LET categoryGroup == GetCategoryGroup(categoryValue) IN
  /\ CallerIdle
  /\ categoryGroups' = Interned(categoryGroup)
  /\ categoryGroupAtomic' = AtomicAfterCheck(categoryGroup)
  /\ siteAtomic' = IF out.via \in Sites
                   THEN [siteAtomic EXCEPT ![out.via] = SitePointer(out.via, categoryGroup)]
                   ELSE siteAtomic
  /\ IF Adds(out, categoryGroup)
     THEN DoAppend(Added(out, categoryGroup))
     ELSE UNCHANGED <<bufferVars, stampVars>>
  /\ last' = Obs("Emit", out.err \/ categoryGroup = nullptr,
                 categoryGroup # nullptr,
                 GetCategoryGroupEnabled(categoryGroup) # nullptr,
                 categoryGroup # nullptr /\ IsGroupEnabled(categoryGroup),
                 IF Adds(out, categoryGroup) THEN AppendResult ELSE "none", "none")
  /\ UNCHANGED <<agentVars, pc, sideVars>>

IsRoundTripEmit(nameV, categoryValue) ==
  /\ nameV = StrV(NameE1)
  /\ GetCategoryGroup(categoryValue) = StrX

EmitInstantEvent(nameV, idV, categoryValue, argsV, garbage, castOk) ==
  /\ Emission(categoryValue,
              InstantOutcome(nameV, idV, argsV, GetCategoryGroup(categoryValue),
                             GetCategoryGroupEnabled(GetCategoryGroup(categoryValue)),
                             garbage, castOk))
  /\ rt' = IF rt = 1 /\ IsRoundTripEmit(nameV, categoryValue) /\ IsUndefined(argsV)
           THEN 2 ELSE 0

EmitBeginEvent(nameV, idV, categoryValue, argsV, garbage) ==
  /\ Emission(categoryValue,
              SpanOutcome("BeginSpan", "Begin0", "Begin0Args", nameV, idV, argsV, GetCategoryGroup(categoryValue),
                          GetCategoryGroupEnabled(GetCategoryGroup(categoryValue)), garbage))
  /\ rt' = 0

EmitEndEvent(nameV, idV, categoryValue, argsV, garbage) ==
  /\ Emission(categoryValue,
              SpanOutcome("EndSpan", "End0", "End0Args", nameV, idV, argsV, GetCategoryGroup(categoryValue),
                          GetCategoryGroupEnabled(GetCategoryGroup(categoryValue)), garbage))
  /\ rt' = 0

EmitCountEvent(nameV, categoryValue, argsV, garbage) ==
  /\ Emission(categoryValue,
              CountOutcome(nameV, argsV, GetCategoryGroup(categoryValue),
                           GetCategoryGroupEnabled(GetCategoryGroup(categoryValue)), garbage))
  /\ rt' = 0

\* (variant) an empty list is handed to SetCategories like any other list
EnableCategory_EmptyIsSet(categoryValue, flagsV) ==
  LET got == GetCategoryList(categoryValue) IN
  /\ CallerIdle
  /\ IF ~got.ok \/ ~IsNumber(flagsV)
     THEN /\ last' = Threw("EnableCategory")
          /\ UNCHANGED agentVars
     ELSE /\ AgentSetCategories(got.list)
          /\ last' = Plain("EnableCategory", IF IsStarted THEN "StartTracing" ELSE "none")
  /\ rt' = 0
  /\ UNCHANGED <<pc, internVars, bufferVars, stampVars, sideVars>>

\* The snapshots a category-setting call passes to the onchange callback when
\* the enabled set goes from `before` to `after`.  The invocation is an open
\* TODO in EnableCategory and Agent::SetCategories has none: no call is made.
OnChangeCalls(before, after) == <<>>

\* GetEnabledCategories: a map with one key for each name of
\* Agent::GetCategories() (each with flag 1); the keys are what it reports.
GetEnabledCategories == SeqToSet(categories_)

\* EnableCategory: a non-empty list is set and tracing started (SetCategories
\* restarts a started agent itself, a stopped one is started here); an empty
\* list stops the agent.
EnableCategory(categoryValue, flagsV) ==
  LET got == GetCategoryList(categoryValue) IN
  /\ CallerIdle
  /\ IF ~got.ok \/ ~IsNumber(flagsV)
     THEN /\ last' = Threw("EnableCategory")
          /\ rt' = 0
          /\ UNCHANGED <<agentVars, pc>>
     ELSE IF Len(got.list) > 0
     THEN /\ categories_' = got.list
          /\ AgentStart(got.list)
          /\ last' = Plain("EnableCategory", "StartTracing")
          /\ rt' = IF ~IsStarted /\ got.list = <<StrX>> /\ open.events = <<>>
                      /\ queue = <<>> /\ sink = <<>>
                   THEN 1 ELSE 0
          /\ UNCHANGED pc
     ELSE /\ AgentStopBegin
          /\ last' = Plain("EnableCategory", IF IsStarted THEN "StopTracing" ELSE "none")
          /\ rt' = 0
  /\ UNCHANGED <<internVars, bufferVars, stampVars, sideVars>>

\* Agent::SetCategories as the embedder calls it.
SetCategories(list) ==
  /\ CallerIdle
  /\ AgentSetCategories(list)
  /\ last' = Plain("SetCategories", IF IsStarted THEN "StartTracing" ELSE "none")
  /\ rt' = 0
  /\ UNCHANGED <<internVars, bufferVars, pc, stampVars, sideVars>>

\* Agent::SetCategories(const char*) as the embedder calls it.
SetCategoriesCStr(category_list) ==
  /\ CallerIdle
  /\ AgentSetCategories(CategoriesOfCStr(category_list))
  /\ last' = Plain("SetCategoriesCStr", IF IsStarted THEN "StartTracing" ELSE "none")
  /\ rt' = 0
  /\ UNCHANGED <<internVars, bufferVars, pc, stampVars, sideVars>>

\* Agent::SetCategories statement by statement, as a thread that shares the
\* Agent with a reader goes through it: categories_.clear(), one push_back
\* per name, then the Start() of a started agent.  Nothing in the class
\* serialises it against GetCategories().
SetCategoriesClear(list) ==
  /\ CallerIdle
  /\ categories_' = <<>>
  /\ pending' = [active |-> TRUE, old |-> categories_, list |-> list]
  /\ last' = Plain("SetCategories", "none")
  /\ rt' = 0
  /\ UNCHANGED <<started_, tracing, config, internVars, bufferVars, pc, stampVars,
                 thread_, snapshot, starter>>

SetCategoriesPush ==
  /\ pending.active
  /\ Len(categories_) < Len(pending.list)
  /\ categories_' = Append(categories_, pending.list[Len(categories_) + 1])
  /\ UNCHANGED <<started_, tracing, config, internVars, bufferVars, pc, stampVars,
                 last, rt, sideVars>>

SetCategoriesFinish ==
  /\ pending.active
  /\ Len(categories_) = Len(pending.list)
  /\ IF IsStarted THEN AgentStart(categories_)
     ELSE UNCHANGED <<config, tracing, started_>>
  /\ pending' = NoCall
  /\ last' = Plain("SetCategories", IF IsStarted THEN "StartTracing" ELSE "none")
  /\ UNCHANGED <<categories_, internVars, bufferVars, pc, stampVars, rt, thread_, snapshot,
                 starter>>

\* A reader on another thread: GetCategories() hands out the vector as it is
\* at that moment (GetEnabledCategories copies its names into a map).
GetCategoriesRead ==
  /\ thread_ = "running"
  /\ snapshot' = [taken |-> TRUE, during |-> pending.active, seen |-> categories_,
                  old |-> pending.old, list |-> pending.list]
  /\ UNCHANGED <<agentVars, internVars, bufferVars, pc, stampVars, last, rt,
                 thread_, pending, starter>>

\* ------------------------------------------------------------------ inputs
CategoryValues ==
  {StrV(StrX), StrV(StrY), ArrV(<<>>), ArrV(<<StrV(StrX)>>),
   ArrV(<<StrV(StrX), StrV(StrY)>>), ArrV(<<StrV(StrX), NumV(1)>>), NumV(1)}
GroupValues == {StrV(StrX), ArrV(<<StrV(StrX), StrV(StrY)>>), BoolV}
CategoryLists == {<<>>, <<StrX>>, <<StrY>>, <<StrX, StrY>>}
NameValues == {StrV(NameE1), Undefined}
IdValues == {Undefined, StrV(<<"i1">>)}
ArgsValues == {Undefined, ObjV(1), NumV(7)}
CountValues == {NumV(7), ObjV(3), Undefined}
FlagValues == {NumV(1), Undefined}
Garbage == {-1, 0}
CStrInputs ==
  {nullptr, <<>>, StrX, StrXY, <<"x", ",">>, <<",">>, <<"x", ",", ",", "y">>}

Init ==
  /\ started_ = FALSE
  /\ categories_ = <<>>
  /\ tracing = FALSE
  /\ config = {}
  /\ categoryGroups = <<>>
  /\ categoryGroupAtomic = nullptr
  /\ siteAtomic = [site \in Sites |-> nullptr]
  /\ open = NewChunk(1)
  /\ queue = <<>>
  /\ sink = <<>>
  /\ pc = "idle"
  /\ nAppend = 0
  /\ accepted = {}
  /\ last = Plain("init", "none")
  /\ rt = 0
  /\ thread_ = "running"
  /\ pending = NoCall
  /\ snapshot = NoSnapshot
  /\ starter = "idle"

\* ---------------------------------------------------------- control actions
Start ==
  /\ CallerIdle
  /\ AgentStart(categories_)
  /\ last' = Plain("Start", "StartTracing")
  /\ rt' = 0
  /\ UNCHANGED <<categories_, internVars, bufferVars, pc, stampVars, sideVars>>

Stop ==
  /\ CallerIdle
  /\ AgentStopBegin
  /\ last' = Plain("Stop", IF IsStarted THEN "StopTracing" ELSE "none")
  /\ rt' = IF rt = 2 /\ IsStarted THEN 3 ELSE 0
  /\ UNCHANGED <<internVars, bufferVars, stampVars, sideVars>>

\* StopTracing's final flush of the buffer.
StopFlush ==
  /\ pc = "flush"
  /\ CanFlush
  /\ FlushNow
  /\ pc' = "drain"
  /\ last' = Plain("StopFlush", "none")
  /\ UNCHANGED <<agentVars, internVars, sink, stampVars, rt, sideVars>>

\* (variant) Stop also joins the worker thread before it returns
StopDone_JoinsWorker ==
  /\ pc = "drain"
  /\ queue = <<>>
  /\ started_' = FALSE
  /\ pc' = "idle"
  /\ thread_' = "joined"
  /\ last' = Plain("StopDone", "uv_thread_join")
  /\ UNCHANGED <<categories_, tracing, config, internVars, bufferVars, stampVars, rt,
                 pending, snapshot, starter>>

\* The writer has drained: StopTracing returns and Agent::Stop clears started_.
StopDone ==
  /\ pc = "drain"
  /\ queue = <<>>
  /\ started_' = FALSE
  /\ pc' = "idle"
  /\ last' = Plain("StopDone", "none")
  /\ UNCHANGED <<categories_, tracing, config, internVars, bufferVars, stampVars, rt, sideVars>>

\* (variant) a failed write ends recording
ThreadCb_FailureStopsTracing ==
  /\ thread_ # "joined"
  /\ ConsumeChunk
  /\ \E ok \in BOOLEAN :
       /\ last' = Obs("ThreadCb", FALSE, FALSE, FALSE, FALSE,
                      IF ok THEN "Written" ELSE "SinkWriteFailure", "none")
       /\ tracing' = (tracing /\ ok)
  /\ UNCHANGED <<started_, categories_, config, internVars, pc, stampVars, rt, sideVars>>

\* Agent::ThreadCb: the worker runs the tracing loop, on which the writer
\* consumes the sealed chunks.
ThreadCb ==
  /\ thread_ # "joined"
  /\ ConsumeChunk
  /\ \E ok \in BOOLEAN :
       last' = Obs("ThreadCb", FALSE, FALSE, FALSE, FALSE,
                   IF ok THEN "Written" ELSE "SinkWriteFailure", "none")
  /\ UNCHANGED <<agentVars, internVars, pc, stampVars, rt, sideVars>>

\* Agent::Start statement by statement, as a second thread that shares the
\* Agent goes through it: the TraceConfig is built from categories_ and handed
\* to StartTracing, and started_ is set in a later statement.  started_ is a
\* plain bool and nothing in the class serialises the two statements against
\* the calls of the control thread or against the trace macros.
StartTracingStep ==
  /\ starter = "idle"
  /\ thread_ = "running"
  /\ config' = SeqToSet(categories_)
  /\ tracing' = TRUE
  /\ starter' = "set"
  /\ last' = Plain("Start.StartTracing", "StartTracing")
  /\ UNCHANGED <<started_, categories_, internVars, bufferVars, pc, stampVars, rt,
                 thread_, pending, snapshot>>

StartFlagStep ==
  /\ starter = "set"
  /\ started_' = TRUE
  /\ starter' = "idle"
  /\ last' = Plain("Start.started_", "none")
  /\ UNCHANGED <<categories_, tracing, config, internVars, bufferVars, pc, stampVars, rt,
                 thread_, pending, snapshot>>

\* Agent::~Agent: Stop(), then (on a later step, once Stop has returned) the
\* controller is deleted, the loop closed and the worker joined.
AgentDtor ==
  /\ CallerIdle
  /\ AgentStopBegin
  /\ thread_' = "joining"
  /\ last' = Plain("~Agent", IF IsStarted THEN "StopTracing" ELSE "none")
  /\ rt' = 0
  /\ UNCHANGED <<internVars, bufferVars, stampVars, pending, snapshot, starter>>

\* (variant) the destructor tears down and joins without waiting for Stop
AgentDtorJoin_NoWait ==
  /\ thread_ = "joining"
  /\ thread_' = "joined"
  /\ last' = Plain("~Agent", "uv_thread_join")
  /\ UNCHANGED <<agentVars, internVars, bufferVars, pc, stampVars, rt, pending, snapshot,
                 starter>>

AgentDtorJoin ==
  /\ pc = "idle"
  /\ thread_ = "joining"
  /\ thread_' = "joined"
  /\ last' = Plain("~Agent", "uv_thread_join")
  /\ UNCHANGED <<agentVars, internVars, bufferVars, pc, stampVars, rt, pending, snapshot,
                 starter>>

\* Another thread emits through the trace macros (a call site with a literal
\* category "x", whose flag it reads from the controller) while the control
\* thread is anywhere.
BackgroundAppend ==
  /\ IsGroupEnabled(StrX)
  /\ DoAppend(Event("Instant", <<"bg">>, StrX, NoId, 0, 0))
  /\ last' = Obs("BackgroundAppend", FALSE, FALSE, FALSE, FALSE, AppendResult, "none")
  /\ UNCHANGED <<agentVars, internVars, pc, rt, sideVars>>

\* The buffer's flush timer: FlushNow while recording.
TimerFlush ==
  /\ tracing
  /\ open.events # <<>>
  /\ CanFlush
  /\ FlushNow
  /\ last' = Plain("TimerFlush", "none")
  /\ UNCHANGED <<agentVars, internVars, sink, pc, stampVars, rt, sideVars>>

Next ==
  \/ Start
  \/ Stop
  \/ StopFlush
  \/ StopDone
  \/ ThreadCb
  \/ \E list \in CategoryLists : SetCategories(list)
  \/ \E cv \in CategoryValues, fv \in FlagValues : EnableCategory(cv, fv)
  \/ /\ nAppend < MaxEmit
     /\ \E nv \in NameValues, iv \in IdValues, cv \in GroupValues, av \in ArgsValues,
           g \in Garbage, c \in BOOLEAN : EmitInstantEvent(nv, iv, cv, av, g, c)
  \/ /\ nAppend < MaxEmit
     /\ \E nv \in NameValues, iv \in IdValues, cv \in GroupValues, av \in ArgsValues,
           g \in Garbage : EmitBeginEvent(nv, iv, cv, av, g)
  \/ /\ nAppend < MaxEmit
     /\ \E nv \in NameValues, iv \in IdValues, cv \in GroupValues, av \in ArgsValues,
           g \in Garbage : EmitEndEvent(nv, iv, cv, av, g)
  \/ /\ nAppend < MaxEmit
     /\ \E nv \in NameValues, cv \in GroupValues, av \in CountValues,
           g \in Garbage : EmitCountEvent(nv, cv, av, g)
  \/ /\ nAppend < MaxEmit
     /\ BackgroundAppend
  \/ TimerFlush

Spec == Init /\ [][Next]_vars

\* The pipeline under load: category "x" is switched on and off, the control
\* thread emits instant events "E1" in category "x", another thread appends
\* its own, the timer flushes and the worker consumes.
NextPipeline ==
  \/ EnableCategory(ArrV(<<StrV(StrX)>>), NumV(1))
  \/ EnableCategory(ArrV(<<>>), NumV(1))
  \/ Start
  \/ Stop
  \/ StopFlush
  \/ StopDone
  \/ ThreadCb
  \/ /\ nAppend < MaxAppend
     /\ \E g \in Garbage :
           EmitInstantEvent(StrV(NameE1), Undefined, StrV(StrX), Undefined, g, FALSE)
  \/ /\ nAppend < MaxAppend
     /\ BackgroundAppend
  \/ TimerFlush

SpecPipeline == Init /\ [][NextPipeline]_vars

\* The control surface in full (every input of Start, Stop, SetCategories and
\* EnableCategory) around a single kind of emission.
NextLifecycle ==
  \/ Start
  \/ Stop
  \/ StopFlush
  \/ StopDone
  \/ ThreadCb
  \/ \E list \in CategoryLists : SetCategories(list)
  \/ \E cv \in CategoryValues, fv \in FlagValues : EnableCategory(cv, fv)
  \/ /\ nAppend < MaxEmit
     /\ \E g \in Garbage :
           EmitInstantEvent(StrV(NameE1), Undefined, StrV(StrX), Undefined, g, FALSE)
  \/ /\ nAppend < MaxEmit
     /\ BackgroundAppend
  \/ AgentDtor
  \/ AgentDtorJoin

SpecLifecycle == Init /\ [][NextLifecycle]_vars

\* The category list written by one thread and read by another.
NextPublish ==
  \/ \E list \in CategoryLists : SetCategoriesClear(list)
  \/ SetCategoriesPush
  \/ SetCategoriesFinish
  \/ GetCategoriesRead
  \/ Start
  \/ Stop
  \/ StopFlush
  \/ StopDone

SpecPublish == Init /\ [][NextPublish]_vars

\* Two threads on one Agent: the control thread sets categories, stops and
\* emits while a second thread is inside Start(); another thread appends
\* through the trace macros and the worker consumes.
NextRace ==
  \/ StartTracingStep
  \/ StartFlagStep
  \/ Stop
  \/ StopFlush
  \/ StopDone
  \/ ThreadCb
  \/ \E list \in CategoryLists : SetCategories(list)
  \/ /\ nAppend < MaxEmit
     /\ \E g \in Garbage :
           EmitInstantEvent(StrV(NameE1), Undefined, StrV(StrX), Undefined, g, FALSE)
  \/ /\ nAppend < MaxEmit
     /\ BackgroundAppend

SpecRace == Init /\ [][NextRace]_vars

\* The emission entry points around an agent whose category "x" is switched
\* on and off: calls with every shape of category argument (a name, a joined
\* group given as string or as array, the empty array, an array with a
\* non-string element, a value that is neither) at any time, and calls with
\* every combination of the other arguments, for a category name and for a
\* value that is no category, while the agent is Stopped.
EmitGroupValues ==
  {StrV(StrX), StrV(StrXY), ArrV(<<StrV(StrX), StrV(StrY)>>), ArrV(<<>>),
   ArrV(<<StrV(StrX), NumV(1)>>), NumV(1)}
StoppedGroupValues == {StrV(StrX), NumV(1)}

NextEmit ==
  \/ EnableCategory(ArrV(<<StrV(StrX)>>), NumV(1))
  \/ EnableCategory(ArrV(<<>>), NumV(1))
  \/ StopFlush
  \/ StopDone
  \/ ThreadCb
  \/ /\ nAppend < MaxEmit
     /\ \E cv \in EmitGroupValues, g \in Garbage :
           EmitInstantEvent(StrV(NameE1), Undefined, cv, Undefined, g, FALSE)
  \/ /\ nAppend < MaxEmit
     /\ \E cv \in EmitGroupValues, g \in Garbage :
           EmitBeginEvent(StrV(NameE1), Undefined, cv, Undefined, g)
  \/ /\ nAppend < MaxEmit
     /\ \E cv \in EmitGroupValues, g \in Garbage :
           EmitEndEvent(StrV(NameE1), Undefined, cv, Undefined, g)
  \/ /\ nAppend < MaxEmit
     /\ \E cv \in EmitGroupValues, g \in Garbage :
           EmitCountEvent(StrV(NameE1), cv, NumV(7), g)
  \/ /\ pc = "idle" /\ ~started_
     /\ \E nv \in NameValues, iv \in IdValues \cup {ObjV(1)}, cv \in StoppedGroupValues,
           av \in ArgsValues, c \in BOOLEAN :
           EmitInstantEvent(nv, iv, cv, av, 0, c)
  \/ /\ pc = "idle" /\ ~started_
     /\ \E nv \in NameValues, iv \in IdValues, cv \in StoppedGroupValues,
           av \in ArgsValues : EmitBeginEvent(nv, iv, cv, av, 0)
  \/ /\ pc = "idle" /\ ~started_
     /\ \E nv \in NameValues, iv \in IdValues, cv \in StoppedGroupValues,
           av \in ArgsValues : EmitEndEvent(nv, iv, cv, av, 0)
  \/ /\ pc = "idle" /\ ~started_
     /\ \E nv \in NameValues, cv \in StoppedGroupValues, av \in CountValues :
           EmitCountEvent(nv, cv, av, 0)

SpecEmit == Init /\ [][NextEmit]_vars

\* The emission entry points with every combination of name, id and args
\* arguments, for the category "x", around an agent whose category "x" is
\* switched on and off.
NextArgs ==
  \/ EnableCategory(ArrV(<<StrV(StrX)>>), NumV(1))
  \/ EnableCategory(ArrV(<<>>), NumV(1))
  \/ StopFlush
  \/ StopDone
  \/ ThreadCb
  \/ /\ nAppend < MaxEmit
     /\ \E nv \in NameValues, iv \in IdValues, av \in ArgsValues,
           g \in Garbage, c \in BOOLEAN : EmitInstantEvent(nv, iv, StrV(StrX), av, g, c)
  \/ /\ nAppend < MaxEmit
     /\ \E nv \in NameValues, iv \in IdValues, av \in ArgsValues, g \in Garbage :
           EmitBeginEvent(nv, iv, StrV(StrX), av, g)
  \/ /\ nAppend < MaxEmit
     /\ \E nv \in NameValues, iv \in IdValues, av \in ArgsValues, g \in Garbage :
           EmitEndEvent(nv, iv, StrV(StrX), av, g)
  \/ /\ nAppend < MaxEmit
     /\ \E nv \in NameValues, av \in CountValues, g \in Garbage :
           EmitCountEvent(nv, StrV(StrX), av, g)

SpecArgs == Init /\ [][NextArgs]_vars

\* The embedder sets the categories from a comma-separated C string or from a
\* list, starts and stops; events of category "x" are emitted and consumed.
NextCStr ==
  \/ \E category_list \in CStrInputs : SetCategoriesCStr(category_list)
  \/ \E list \in CategoryLists : SetCategories(list)
  \/ Start
  \/ Stop
  \/ StopFlush
  \/ StopDone
  \/ ThreadCb
  \/ /\ nAppend < MaxEmit
     /\ \E g \in Garbage :
           EmitInstantEvent(StrV(NameE1), Undefined, StrV(StrX), Undefined, g, FALSE)

SpecCStr == Init /\ [][NextCStr]_vars

\* Emission calls whose category is an array of names, with and without a
\* repeated name, around an agent whose category "x" is switched on and off.
GroupInputs ==
  {ArrV(<<StrV(StrX)>>), ArrV(<<StrV(StrX), StrV(StrX)>>),
   ArrV(<<StrV(StrX), StrV(StrY)>>), ArrV(<<StrV(StrX), StrV(StrY), StrV(StrX)>>)}

NextGroups ==
  \/ EnableCategory(ArrV(<<StrV(StrX)>>), NumV(1))
  \/ EnableCategory(ArrV(<<>>), NumV(1))
  \/ StopFlush
  \/ StopDone
  \/ ThreadCb
  \/ /\ nAppend < MaxEmit
     /\ \E cv \in GroupInputs, g \in Garbage :
           EmitInstantEvent(StrV(NameE1), Undefined, cv, Undefined, g, FALSE)

SpecGroups == Init /\ [][NextGroups]_vars

\* ================================================================== claims
RECURSIVE Flatten(_)
Flatten(chunks) ==
  IF chunks = <<>> THEN <<>> ELSE Head(chunks).events \o Flatten(Tail(chunks))

AllChunks == sink \o queue \o <<open>>
StampsOf(events) == [i \in 1..Len(events) |-> events[i].seq]
ChunkIds(chunks) == [i \in 1..Len(chunks) |-> chunks[i].id]
StrictlyIncreasing(q) == \A i \in 1..(Len(q) - 1) : q[i] < q[i + 1]
DeliveredStamps == SeqToSet(StampsOf(Flatten(sink)))
NamesIn(chunk) == {chunk.events[i].name : i \in 1..Len(chunk.events)}
SealedChunks == SeqToSet(sink) \cup SeqToSet(queue)
Stopped == pc = "idle" /\ ~started_

\* C1: whenever the Agent is Stopped, every event Append accepted (events of a
\* partially filled chunk included) has been handed to the sink.
C1_NoAcceptedEventLost == Stopped => accepted \subseteq DeliveredStamps

\* C1 witness: Stop returned after three accepted events, the last chunk handed
\* to the sink being the partially filled one.
C1_Witness ==
  /\ Stopped
  /\ last.op = "StopDone"
  /\ Cardinality(accepted) = 3
  /\ sink # <<>>
  /\ Len(sink[Len(sink)].events) = 1

\* C2 (as claimed): after enabling ["x"] on a Stopped agent with an empty
\* buffer, emitting the Instant event "E1" in category "x" and Stop(), the sink
\* holds exactly one chunk with exactly one event, named "E1", phase Instant.
C2_RoundTrip ==
  (rt = 3 /\ pc = "idle") =>
    /\ Len(sink) = 1
    /\ Len(sink[1].events) = 1
    /\ sink[1].events[1].name = NameE1
    /\ sink[1].events[1].phase = "Instant"

C4_DeliveryOrder ==
  /\ StrictlyIncreasing(ChunkIds(AllChunks))
  /\ StrictlyIncreasing(StampsOf(Flatten(AllChunks)))
  /\ SeqToSet(StampsOf(Flatten(AllChunks))) = accepted

\* C4 witness: the sink received two chunks, the first a full one, while a
\* third sealed chunk waits behind another in the queue.
C4_Witness ==
  /\ Len(sink) >= 2
  /\ Len(sink[1].events) = ChunkCapacity
  /\ Len(queue) = 2

\* C5: no chunk is in two places at once (open in the buffer, queued, or at the
\* sink), and a sealed chunk stays sealed with the events it was sealed with.
C5_ChunkHandOff ==
  /\ [](\A i, j \in 1..Len(AllChunks) : i # j => AllChunks[i].id # AllChunks[j].id)
  /\ [][SealedChunks \subseteq SealedChunks']_vars

\* C5 witness: a chunk filled by both producers reached the sink while the
\* buffer holds an open chunk with events and a sealed one is queued.
C5_Witness ==
  /\ \E i \in 1..Len(sink) : NamesIn(sink[i]) = {NameE1, <<"bg">>}
  /\ open.events # <<>>
  /\ queue # <<>>

\* C6 (as claimed): an emission call whose category group has no enabled name
\* appends nothing.
C6_DisabledGroupAppendsNothing ==
  (last.op = "Emit" /\ ~last.truly) => last.res = "none"

\* C7 (as claimed): the enabled check of an emission call answers true iff one
\* of the group's comma-split names is in the enabled set.
C7_EnabledIffSomeNameEnabled ==
  (last.op = "Emit" /\ last.checked) => (last.enabled <=> last.truly)

\* C8 (as claimed): Start() on a started agent changes nothing and does not
\* start tracing a second time.
C8_StartWhileRunningIsNoOp ==
  [][(last'.op = "Start" /\ started_) =>
       /\ UNCHANGED <<agentVars, internVars, bufferVars, pc, stampVars>>
       /\ last'.ctl = "none"]_vars

\* C8 (amended): Start() on a started agent leaves the lifecycle state, the
\* active configuration, the category list, the buffer and the worker's queue
\* as they were; it does call StartTracing again, with a configuration equal
\* to the active one.
C8_StartWhileRunningKeepsState ==
  [][(last'.op = "Start" /\ started_) =>
       /\ UNCHANGED <<agentVars, internVars, bufferVars, pc, stampVars>>
       /\ last'.ctl = "StartTracing"]_vars

\* C8 witness: Start() was called on an agent that holds buffered events, so
\* on a running one.
C8_Witness ==
  /\ last.op = "Start"
  /\ started_
  /\ open.events # <<>>
  /\ config # {}

\* C9: Stop() on a stopped agent changes nothing, calls no StopTracing (no
\* flush) and raises nothing.
C9_StopWhileStoppedIsNoOp ==
  [][(last'.op = "Stop" /\ ~started_) =>
       /\ UNCHANGED <<agentVars, internVars, bufferVars, pc, stampVars>>
       /\ last'.ctl = "none"
       /\ ~last'.err]_vars

\* C9 witness: Stop() returned at once on an agent that had run and was
\* stopped before.
C9_Witness ==
  /\ last.op = "Stop"
  /\ Stopped
  /\ sink # <<>>
  /\ categories_ # <<>>

\* C10: the Agent starts Stopped; between calls IsStarted() is true iff the
\* controller is recording; Start() ends Running, a Stop() that returns ends
\* Stopped, SetCategories leaves started_ alone, and started_ changes only in
\* Start, in EnableCategory and when Stop returns.
C10_Lifecycle ==
  /\ ~started_
  /\ [](pc = "idle" => (started_ <=> tracing))
  /\ [][/\ (last'.op = "Start" => (started_' /\ tracing'))
        /\ ((pc # "idle" /\ pc' = "idle") => (~started_' /\ ~tracing'))
        /\ (last'.op = "SetCategories" => started_' = started_)
        /\ (started_' # started_ =>
              last'.op \in {"Start", "EnableCategory", "StopDone"})]_vars

\* C10 witness: an agent with categories was started and Stop() has returned.
C10_Witness ==
  /\ last.op = "StopDone"
  /\ Stopped
  /\ ~tracing
  /\ categories_ # <<>>
  /\ sink # <<>>

\* C11 (as claimed): a category-setting call on a Stopped agent installs the
\* list it was given and leaves the agent Running iff that list is non-empty.
C11_SetWhileStoppedStartsIffNonEmpty ==
  [][Stopped =>
       /\ \A list \in CategoryLists :
            SetCategories(list) =>
              (categories_' = list /\ (started_' <=> list # <<>>))
       /\ \A cv \in CategoryValues, fv \in FlagValues :
            (EnableCategory(cv, fv) /\ ~last'.err) =>
              /\ categories_' = GetCategoryList(cv).list
              /\ started_' <=> GetCategoryList(cv).list # <<>>]_vars

\* C12 (as claimed): a category-setting call with an empty list on a Running
\* agent takes the Stop path: StopTracing is called and, when the path
\* returns, the buffer is flushed and IsStarted() is false.
C12_EmptySetWhileRunningStops ==
  [][/\ (started_ /\ pc = "idle") =>
          /\ SetCategories(<<>>) => (pc' = "flush" /\ ~tracing')
          /\ \A fv \in FlagValues :
               (EnableCategory(ArrV(<<>>), fv) /\ ~last'.err) =>
                 (pc' = "flush" /\ ~tracing')
     /\ (pc # "idle" /\ pc' = "idle") =>
          (~started_' /\ open'.events = <<>> /\ queue' = <<>>)]_vars

\* C12 (amended): EnableCategory with an empty list on a Running agent takes
\* the Stop path (StopTracing, flush, IsStarted() false on return), while
\* Agent::SetCategories with an empty list keeps the agent Running with an
\* empty configuration.
C12_EnableCategoryEmptyStops ==
  [][/\ (started_ /\ pc = "idle") =>
          /\ SetCategories(<<>>) =>
               (pc' = "idle" /\ started_' /\ tracing' /\ config' = {}
                /\ last'.ctl = "StartTracing")
          /\ \A fv \in FlagValues :
               (EnableCategory(ArrV(<<>>), fv) /\ ~last'.err) =>
                 (pc' = "flush" /\ ~tracing' /\ last'.ctl = "StopTracing")
     /\ (pc # "idle" /\ pc' = "idle") =>
          (~started_' /\ open'.events = <<>> /\ queue' = <<>>)]_vars

\* C12 witness: EnableCategory([]) has put a Running agent with a buffered
\* event on the Stop path.
C12_Witness ==
  /\ last.op = "EnableCategory"
  /\ last.ctl = "StopTracing"
  /\ pc = "flush"
  /\ open.events # <<>>

\* C13 (as claimed): after every category-setting call GetEnabledCategories()
\* reports exactly the names the call was given.
C13_ReportsLastAppliedSet ==
  [][/\ \A list \in CategoryLists :
          SetCategories(list) => GetEnabledCategories' = SeqToSet(list)
     /\ \A cv \in CategoryValues, fv \in FlagValues :
          (EnableCategory(cv, fv) /\ ~last'.err) =>
            GetEnabledCategories' = SeqToSet(GetCategoryList(cv).list)]_vars

\* C15 (as claimed): whenever the agent is Stopped, GetEnabledCategories()
\* reports no names.
C15_StoppedHasNoCategories == Stopped => GetEnabledCategories = {}

\* C14: an emission call made while the agent is Stopped, whatever its
\* arguments, appends nothing to the buffer and hands nothing to the sink.
C14_StoppedEmissionIsNoOp ==
  [][(Stopped /\ last'.op = "Emit") =>
       (UNCHANGED <<bufferVars, stampVars>> /\ last'.res = "none")]_vars

\* C14 witness: an emission call with a well-formed category returned on an
\* agent that had run, delivered a chunk and was stopped, the static word
\* still holding the flag pointer of the group that had been enabled.
C14_Witness ==
  /\ Stopped
  /\ last.op = "Emit"
  /\ last.checked
  /\ ~last.err
  /\ sink # <<>>
  /\ categoryGroupAtomic = StrX

C17_ReaderSeesOldOrNew ==
  (snapshot.taken /\ snapshot.during) =>
    SeqToSet(snapshot.seen) \in {SeqToSet(snapshot.old), SeqToSet(snapshot.list)}

\* The joined group of each category value an emission call may pass.
GroupOf == [cv \in EmitGroupValues |-> GetCategoryGroup(cv)]

\* The category values GetCategoryGroup resolves to a group.
ResolvableValues == {cv \in EmitGroupValues : GroupOf[cv] # nullptr}

\* What a call with category value cv resolves its group to: the node that
\* insert() hands back.
RefOf(cv) == Insert(GroupOf[cv]).ref

\* C18: no two nodes of the intern pool hold the same string (equal joined
\* strings share one reference, different strings have different ones); the
\* pool only grows, every node keeping its string; and a call that resolves
\* the group of cv, given as string or as array, gets the node holding the
\* joined string, which is the node any input with the same joined string
\* resolves to from then on, and no input with another joined string does.
C18_Interning ==
  /\ [](\A i, j \in 1..Len(categoryGroups) :
          categoryGroups[i] = categoryGroups[j] => i = j)
  /\ [][/\ Len(categoryGroups') >= Len(categoryGroups)
        /\ \A i \in 1..Len(categoryGroups) : categoryGroups'[i] = categoryGroups[i]
        /\ last'.op = "Emit" =>
             \A cv \in ResolvableValues :
               categoryGroups' = Insert(GroupOf[cv]).pool =>
                 /\ categoryGroups'[RefOf(cv)] = GroupOf[cv]
                 /\ \A cw \in ResolvableValues :
                      (GroupOf[cw] = GroupOf[cv]) <=> (RefOf(cw)' = RefOf(cv))]_vars

\* C18 witness: after emission calls the pool holds a node for "x,y",
\* allocated first, and one for "x"; the static word points at "x,y".
C18_Witness ==
  /\ Len(categoryGroups) >= 2
  /\ \E i \in 1..Len(categoryGroups) : categoryGroups[i] = StrXY
  /\ \E i \in 1..Len(categoryGroups) : categoryGroups[i] = StrX
  /\ last.op = "Emit"
  /\ last.checked
  /\ categoryGroups[1] = StrXY
  /\ categoryGroupAtomic = StrXY
\* Some emission entry point is called with category value cv.
EmitCallWith(cv) ==
  \/ \E nv \in NameValues, iv \in IdValues \cup {ObjV(1)}, av \in ArgsValues,
        g \in Garbage, c \in BOOLEAN : EmitInstantEvent(nv, iv, cv, av, g, c)
  \/ \E nv \in NameValues, iv \in IdValues, av \in ArgsValues, g \in Garbage :
        EmitBeginEvent(nv, iv, cv, av, g) \/ EmitEndEvent(nv, iv, cv, av, g)
  \/ \E nv \in NameValues, av \in CountValues, g \in Garbage :
        EmitCountEvent(nv, cv, av, g)

\* C19 (as claimed): an emission call whose category is the empty array fails
\* with an error, adds nothing to the intern pool and appends no event.
C19_EmptyInputIsRejected ==
  [][EmitCallWith(ArrV(<<>>)) =>
       /\ last'.err
       /\ ~last'.checked
       /\ UNCHANGED <<categoryGroups, bufferVars, stampVars>>]_vars

\* A category value that is an array with a non-string element, or neither a
\* string nor an array.
IsBadCategory(cv) ==
  \/ ~IsString(cv) /\ ~IsArray(cv)
  \/ IsArray(cv) /\ \E i \in 1..Len(cv.a) : ~IsString(cv.a[i])

\* C20: GetCategoryGroup fails (TypeError, nullptr) exactly for the bad
\* category values, and an emission call whose category failed to resolve
\* throws, appends no event and leaves the intern pool and the static words
\* as they were.
C20_BadCategoryIsRejected ==
  /\ [](\A cv \in EmitGroupValues \cup CategoryValues :
          IsBadCategory(cv) <=> GetCategoryGroup(cv) = nullptr)
  /\ [][(last'.op = "Emit" /\ ~last'.checked) =>
          /\ last'.err
          /\ last'.res = "none"
          /\ UNCHANGED <<internVars, bufferVars, stampVars>>]_vars

\* C20 witness: a call with a bad category threw on a Running agent with "x"
\* enabled, whose intern pool already held a node.
C20_Witness ==
  /\ last.op = "Emit"
  /\ ~last.checked
  /\ last.err
  /\ started_ /\ tracing /\ StrX \in config
  /\ categoryGroups # <<>>

\* Some emission entry point is called with name value nv and category value cv.
EmitCallNamed(nv, cv) ==
  \/ \E iv \in IdValues, av \in ArgsValues, g \in Garbage, c \in BOOLEAN :
        EmitInstantEvent(nv, iv, cv, av, g, c)
  \/ \E iv \in IdValues, av \in ArgsValues, g \in Garbage :
        EmitBeginEvent(nv, iv, cv, av, g) \/ EmitEndEvent(nv, iv, cv, av, g)
  \/ \E av \in CountValues, g \in Garbage : EmitCountEvent(nv, cv, av, g)

\* C21 (as claimed): an emission call whose name is absent throws, whatever the
\* agent's state and whether or not its category group is enabled, and appends
\* no event.
C21_BadNameAlwaysThrows ==
  [][\A cv \in GroupValues :
       (GetCategoryGroup(cv) # nullptr /\ EmitCallNamed(Undefined, cv)) =>
         /\ last'.err
         /\ UNCHANGED <<bufferVars, stampVars>>]_vars

\* The event Append put into the buffer last.
Newest == open.events[Len(open.events)]

\* A step in which an emission call appended an event that Append accepted.
Recorded == last'.op = "Emit" /\ nAppend' = nAppend + 1 /\ last'.res = "Accepted"

ArgsMappings == {av \in ArgsValues : av.t = "object" /\ av.n >= 1}

\* C23 (as claimed): an Instant, BeginSpan or EndSpan call that records an
\* event for an args mapping of n >= 1 entries records it with min(n, 2)
\* arguments.
C23_ArgsCappedAtTwo ==
  [][Recorded =>
       \A nv \in NameValues, iv \in IdValues, av \in ArgsMappings, g \in Garbage,
          c \in BOOLEAN :
         (\/ EmitInstantEvent(nv, iv, StrV(StrX), av, g, c)
          \/ EmitBeginEvent(nv, iv, StrV(StrX), av, g)
          \/ EmitEndEvent(nv, iv, StrV(StrX), av, g)) =>
           Newest'.nargs = IF av.n < 2 THEN av.n ELSE 2]_vars

\* C24 (as claimed): EmitCountEvent with the object value {a, b, c} on the
\* enabled category "x" (the timestamp read being non-negative) appends exactly
\* one Counter event, which retains two entries.
C24_CounterObjectAppendsOne ==
  [][(/\ IsGroupEnabled(StrX)
      /\ EmitCountEvent(StrV(NameE1), StrV(StrX), ObjV(3), 0)) =>
       /\ nAppend' = nAppend + 1
       /\ Newest'.phase = "Counter"
       /\ Newest'.nargs = 2]_vars

\* C25 (as claimed): EmitCountEvent with a value that is neither a number nor
\* an object throws and appends nothing; with the number 7 on the enabled
\* category "x" it appends exactly one Counter event carrying 7.
C25_CounterValueChecked ==
  [][\A g \in Garbage :
       /\ EmitCountEvent(StrV(NameE1), StrV(StrX), Undefined, g) =>
            /\ last'.err
            /\ UNCHANGED <<bufferVars, stampVars>>
       /\ (IsGroupEnabled(StrX) /\ EmitCountEvent(StrV(NameE1), StrV(StrX), NumV(7), g)) =>
            /\ nAppend' = nAppend + 1
            /\ Newest'.phase = "Counter"
            /\ Newest'.val = 7]_vars

C27_ProducersNeverWait ==
  /\ []((CallerIdle /\ nAppend < MaxAppend) =>
          ENABLED EmitInstantEvent(StrV(NameE1), Undefined, StrV(StrX), Undefined, 0, FALSE))
  /\ []((IsGroupEnabled(StrX) /\ nAppend < MaxAppend) => ENABLED BackgroundAppend)
  /\ [][last'.op \in {"Emit", "BackgroundAppend"} =>
          /\ pc' = pc
          /\ sink' = sink
          /\ last'.res \in {"Accepted", "DroppedBufferFull", "none"}]_vars
  /\ [][sink' # sink => last'.op = "ThreadCb"]_vars

\* C27 witness: the sink has taken nothing, the writer queue and the open
\* chunk are full, and the emission call made in that state has returned
\* DroppedBufferFull.
C27_Witness ==
  /\ sink = <<>>
  /\ Len(queue) = MaxOutstanding
  /\ Len(open.events) = ChunkCapacity
  /\ last.op = "Emit"
  /\ last.res = "DroppedBufferFull"

\* C28 (as claimed): an EnableCategory call with a non-empty list of names adds
\* those names to the enabled set and leaves every other enabled name enabled.
C28_EnableAddsToSet ==
  [][\A cv \in CategoryValues, fv \in FlagValues :
       (/\ EnableCategory(cv, fv)
        /\ ~last'.err
        /\ GetCategoryList(cv).list # <<>>) =>
         GetEnabledCategories' =
           GetEnabledCategories \cup SeqToSet(GetCategoryList(cv).list)]_vars

\* C29 (as claimed): a SetCategories call whose set equals the enabled set
\* changes nothing and makes no controller call (no restart).
C29_SameSetIsSuppressed ==
  [][\A list \in CategoryLists :
       (SetCategories(list) /\ SeqToSet(list) = GetEnabledCategories) =>
         /\ last'.ctl = "none"
         /\ UNCHANGED agentVars]_vars

\* C30 (as claimed): a SetCategories or EnableCategory call on a Running agent
\* invokes the observer exactly once, with the new enabled set, if it changes
\* the enabled set, and not at all if it does not.
C30_ObserverNotifiedOnChange ==
  [][(/\ last'.op \in {"SetCategories", "EnableCategory"}
      /\ ~last'.err
      /\ started_ /\ pc = "idle") =>
       OnChangeCalls(GetEnabledCategories, GetEnabledCategories') =
         IF GetEnabledCategories' # GetEnabledCategories
         THEN <<GetEnabledCategories'>> ELSE <<>>]_vars

\* C31 (as claimed): an emission call resolves its group first (a group that
\* does not resolve ends the call with an error and nothing else), checks it
\* next, and validates and constructs only after that: for a group none of
\* whose names is enabled no validation error is raised and no event is
\* appended.
C31_CheckBeforeConstruct ==
  [][last'.op = "Emit" =>
       /\ ~last'.checked => (last'.err /\ UNCHANGED <<bufferVars, stampVars>>)
       /\ (last'.checked /\ ~last'.truly) =>
            (~last'.err /\ UNCHANGED <<bufferVars, stampVars>>)]_vars

\* C32 (as claimed): whenever the enabled check of an emission call answers
\* true, or a trace macro on another thread finds its category enabled,
\* IsStarted() is true at that moment.
C32_EnabledOnlyWhileStarted ==
  [][(\/ last'.op = "Emit" /\ last'.enabled
      \/ last'.op = "BackgroundAppend") => IsStarted]_vars

\* C33 (as claimed): an emission call on the enabled category "x" with a valid
\* name and no timestamp is not abandoned by the timestamp handling: it raises
\* nothing and its event is appended, whatever GetTimestamp hands back for the
\* absent timestamp.
C33_AbsentTimestampIsAccepted ==
  [][\A g \in Garbage :
       (/\ IsGroupEnabled(StrX)
        /\ \/ EmitInstantEvent(StrV(NameE1), Undefined, StrV(StrX), Undefined, g, FALSE)
           \/ EmitBeginEvent(StrV(NameE1), Undefined, StrV(StrX), Undefined, g)
           \/ EmitEndEvent(StrV(NameE1), Undefined, StrV(StrX), Undefined, g)
           \/ EmitCountEvent(StrV(NameE1), StrV(StrX), NumV(7), g)) =>
         /\ ~last'.err
         /\ nAppend' = nAppend + 1]_vars

\* A sequence of names with every repetition of a name removed.
RECURSIVE WithoutRepetition(_)
WithoutRepetition(names) ==
  IF names = <<>> THEN <<>>
  ELSE LET front == WithoutRepetition(SubSeq(names, 1, Len(names) - 1))
           name == names[Len(names)]
       IN IF name \in SeqToSet(front) THEN front ELSE Append(front, name)

\* C34 (as claimed): an emission call that names its group by an array of
\* names gets the pool node of the key of that array with repetitions removed.
C34_GroupKeyIsDeduplicated ==
  [][\A cv \in GroupInputs, g \in Garbage :
       EmitInstantEvent(StrV(NameE1), Undefined, cv, Undefined, g, FALSE) =>
         /\ Slot(GetCategoryGroup(cv))' # 0
         /\ Slot(GetCategoryGroup(cv))' =
              Slot(JoinFrom(WithoutRepetition(StringsOf(cv.a)), 1))']_vars

\* C35: between calls, whenever IsStarted() is true the controller is
\* recording with a configuration that includes exactly the names of the
\* Agent's category list.
C35_ConfigMatchesCategories ==
  (pc = "idle" /\ IsStarted) => (tracing /\ config = SeqToSet(categories_))

\* C35 witness: a started agent that ran and was stopped before had its list
\* replaced by SetCategories, and holds two names.
C35_Witness ==
  /\ last.op = "SetCategories"
  /\ pc = "idle" /\ IsStarted
  /\ categories_ = <<StrX, StrY>>
  /\ sink # <<>>

\* C36: StopTracing is called only on a started, recording agent between
\* calls, and puts the caller into the final flush, which runs once and ends
\* in the drain; Stop() or ~Agent on a stopped agent calls no StopTracing and
\* leaves the buffer alone; and the destructor joins the worker only after
\* Stop has returned, with the agent stopped.
C36_FinalFlushOncePerRun ==
  /\ [][last'.ctl = "StopTracing" =>
          /\ IsStarted /\ tracing /\ pc = "idle"
          /\ ~tracing' /\ pc' = "flush"]_vars
  /\ [][last'.op = "StopFlush" => (pc = "flush" /\ pc' = "drain")]_vars
  /\ [][(pc # "flush" /\ pc' = "flush") => last'.ctl = "StopTracing"]_vars
  /\ [][(last'.op \in {"Stop", "~Agent"} /\ ~IsStarted) =>
          /\ last'.ctl \in {"none", "uv_thread_join"}
          /\ UNCHANGED <<agentVars, bufferVars, pc>>]_vars
  /\ [][last'.ctl = "uv_thread_join" =>
          (~IsStarted /\ ~tracing /\ pc = "idle" /\ thread_ = "joining")]_vars

\* C36 witness: a started agent holding an event is being destroyed: its
\* destructor has called StopTracing and has not yet joined the worker.
C36_Witness ==
  /\ last.op = "~Agent"
  /\ last.ctl = "StopTracing"
  /\ thread_ = "joining"
  /\ pc = "flush"
  /\ open.events # <<>>

\* C37 (as claimed): when the calls of both threads have returned,
\* IsStarted() is true iff the controller is recording.
C37_ConcurrentCallsEndConsistent ==
  (pc = "idle" /\ starter = "idle" /\ ~pending.active) => (IsStarted <=> tracing)

\* C38: an EnableCategory call whose category argument is neither a string
\* nor an array of strings, or whose flags argument is not a number, throws
\* and leaves the category list, started_, the controller (recording mode and
\* configuration), the buffer and the caller's position unchanged.
C38_EnableCategoryErrorChangesNothing ==
  [][\A cv \in CategoryValues, fv \in FlagValues :
       (EnableCategory(cv, fv) /\ (IsBadCategory(cv) \/ ~IsNumber(fv))) =>
         /\ last'.err
         /\ last'.ctl = "none"
         /\ UNCHANGED <<agentVars, bufferVars, pc>>]_vars

\* C38 witness: an EnableCategory call threw on a started, recording agent
\* with a category list.
C38_Witness ==
  /\ last.op = "EnableCategory"
  /\ last.err
  /\ IsStarted /\ tracing
  /\ categories_ # <<>>
  /\ config # {}

\* The number of commas in a string.
Commas(s) == Cardinality({i \in 1..Len(s) : s[i] = Comma})

\* C39: Agent::SetCategories(const char*) leaves as category list, for a null
\* argument, exactly <<"v8", "node">>, and for a string with k commas exactly
\* its k + 1 comma-separated segments in order, empty ones included: the
\* entries contain no comma and joined with commas they give the argument
\* back.  The list is determined by the argument alone.
C39_SetCategoriesSplitsCStr ==
  [][\A category_list \in CStrInputs :
       SetCategoriesCStr(category_list) =>
         IF category_list = nullptr
         THEN categories_' = <<StrV8, StrNode>>
         ELSE /\ Len(categories_') = Commas(category_list) + 1
              /\ \A i \in 1..Len(categories_') : Commas(categories_'[i]) = 0
              /\ JoinFrom(categories_', 1) = category_list]_vars

\* C39 witness: a started agent was given "x,,y" and holds three entries, the
\* middle one empty, which the controller was given as well.
C39_Witness ==
  /\ last.op = "SetCategoriesCStr"
  /\ IsStarted
  /\ categories_ = <<StrX, <<>>, StrY>>
  /\ config = {StrX, <<>>, StrY}
====
